---- MODULE Spec2Model ----
(***************************************************************************)
(* Interval export of a call-tree profile (speedscope fork).               *)
(*                                                                         *)
(* A profile is built by enterFrame/leaveFrame calls, encoded as a flat    *)
(* stream of Open/Close events, filtered to a window [startValue,endValue] *)
(* with synthetic boundary events, optionally compacted, written as a      *)
(* document, imported again and re-exported.                               *)
(*                                                                         *)
(* Numbers: the program's weights and window bounds are JavaScript numbers *)
(* and may be fractional.  A number v is represented by the integer        *)
(* v * Scale, so parseInt(v.toString()) is truncation to a multiple of     *)
(* Scale.  Frame indices are 0-based as in the program; sequences are      *)
(* 1-based, so table lookups add 1.                                        *)
(***************************************************************************)
EXTENDS Integers, Sequences, FiniteSets, TLC

Scale == 2
MaxAt == 3
MaxNodes == 2
MaxFrames == 2
MaxWindow == 10
MaxGens == 2
MaxTicks == 3

VARIABLES pc, nodes, stack, now, startValue, endValue, variant,
          events, filtered, doc, failure, imported, doc2,
          frameTable, gens, views,
          cache, clock, call, send

vars == <<pc, nodes, stack, now, startValue, endValue, variant,
          events, filtered, doc, failure, imported, doc2, frameTable, gens, views,
          cache, clock, call, send>>

Null == "null"
NoDoc == [kind |-> "none"]

Values == 0..MaxAt
FrameIds == 1..MaxFrames

----------------------------------------------------------------------------
(* Helpers *)

Last(s) == s[Len(s)]

\* position (1-based) of the first occurrence of x in s, 0 when absent
IndexOf(s, x) ==
    IF \E i \in 1..Len(s) : s[i] = x
    THEN CHOOSE i \in 1..Len(s) : s[i] = x /\ \A j \in 1..(i-1) : s[j] # x
    ELSE 0

\* variant: strict LIFO, only the top of the stack is looked at
LastIndexOf_TopOnly(s, x) == IF s # <<>> /\ Last(s) = x THEN Len(s) ELSE 0

\* position (1-based) of the last occurrence of x in s, 0 when absent
LastIndexOf(s, x) ==
    IF \E i \in 1..Len(s) : s[i] = x
    THEN CHOOSE i \in 1..Len(s) : s[i] = x /\ \A j \in (i+1)..Len(s) : s[j] # x
    ELSE 0

RemoveAt(s, i) == SubSeq(s, 1, i-1) \o SubSeq(s, i+1, Len(s))

\* parseInt(value.toString()): truncation toward zero
ParseInt(v) ==
    IF v >= 0 THEN (v \div Scale) * Scale ELSE 0 - (((0 - v) \div Scale) * Scale)

IsInteger(v) == ParseInt(v) = v

----------------------------------------------------------------------------
(* Frames: identity is the id; the attributes are those of the test        *)
(* profiles (main() has no file, the others have one).  Two frames with    *)
(* the same attributes are still different frames.                         *)

FrameInfo(f) ==
    IF f = 1 THEN [name |-> "main()", file |-> Null, line |-> Null, col |-> Null]
    ELSE IF f = 3 THEN [name |-> "functionB()", file |-> "test.js", line |-> "20", col |-> Null]
    ELSE IF f = 4 THEN [name |-> "functionC()", file |-> "test.js", line |-> "30", col |-> Null]
    ELSE IF f = 5 THEN [name |-> "functionD()", file |-> "test.js", line |-> "40", col |-> Null]
    ELSE [name |-> "functionA()", file |-> "test.js", line |-> "10", col |-> Null]

\* the serialized frame of getIndexForFrame: name, and file/line/col when not null
SerializedFrame(f) ==
    LET fi == FrameInfo(f)
        keys == {"name"} \cup {k \in {"file", "line", "col"} : fi[k] # Null}
    IN  [k \in keys |-> fi[k]]

----------------------------------------------------------------------------
(* Event-stream codec *)

OpenEvent(idx, value) == [type |-> "O", frame |-> idx, at |-> ParseInt(value)]
\* variant: the Close carries the weight as it is
CloseEvent_Untruncated(idx, value) == [type |-> "C", frame |-> idx, at |-> value]

CloseEvent(idx, value) == [type |-> "C", frame |-> idx, at |-> ParseInt(value)]

\* variant: a record is pushed on every call
InternTable_Always(tab, f) == Append(tab, f)

\* getIndexForFrame: tab is the sequence of frame identities interned so far
InternTable(tab, f) == IF IndexOf(tab, f) = 0 THEN Append(tab, f) ELSE tab
GetIndexForFrame(tab, f) == IndexOf(InternTable(tab, f), f) - 1

\* forEachCall: depth-first walk of the call tree; ns lists the nodes in
\* call order with parent pointers (0 = top level), stk is the path of open
\* nodes, acc = [tab, evs] the interner table and the events pushed so far
RECURSIVE ForEachCall(_, _, _, _)
ForEachCall(ns, i, stk, acc) ==
    IF stk # <<>> /\ (i > Len(ns) \/ Last(stk) # ns[i].parent)
    THEN LET n == ns[Last(stk)]
         IN  ForEachCall(ns, i, SubSeq(stk, 1, Len(stk) - 1),
                 [tab |-> acc.tab,
                  evs |-> Append(acc.evs,
                             CloseEvent(GetIndexForFrame(acc.tab, n.frame), n.leave))])
    ELSE IF i > Len(ns) THEN acc
    ELSE LET n == ns[i]
         IN  ForEachCall(ns, i + 1, Append(stk, i),
                 [tab |-> InternTable(acc.tab, n.frame),
                  evs |-> Append(acc.evs,
                             OpenEvent(GetIndexForFrame(acc.tab, n.frame), n.enter))])

Encode(ns) == ForEachCall(ns, 1, <<>>, [tab |-> <<>>, evs |-> <<>>])

\* variant: the frames array in reverse order
FramesOf_Reversed(tab) == [i \in 1..Len(tab) |-> SerializedFrame(tab[Len(tab) + 1 - i])]

\* the frames array filled by getIndexForFrame
FramesOf(tab) == [i \in 1..Len(tab) |-> SerializedFrame(tab[i])]

EncodedFrames(ns) == FramesOf(Encode(ns).tab)
EncodedEvents(ns) == Encode(ns).evs

----------------------------------------------------------------------------
(* Interval filter *)

\* variant: the lower bound of the window is not tested
InWindow_NoLowerBound(ev, intervalStart, intervalEnd) ==
    ev.at <= intervalEnd

\* variant: the end of the window is exclusive
InWindow_ExclusiveEnd(ev, intervalStart, intervalEnd) ==
    ev.at >= intervalStart /\ ev.at < intervalEnd

\* event.at >= intervalStart && event.at <= intervalEnd
InWindow(ev, intervalStart, intervalEnd) ==
    ev.at >= intervalStart /\ ev.at <= intervalEnd

\* variant: the branch for Close events is missing from the first pass
SelectedEvents_OpensOnly(evs, intervalStart, intervalEnd) ==
    SelectSeq(evs, LAMBDA ev : InWindow(ev, intervalStart, intervalEnd) /\ ev.type = "O")

\* first pass: the events pushed to filteredEvents
SelectedEvents(evs, intervalStart, intervalEnd) ==
    SelectSeq(evs, LAMBDA ev : InWindow(ev, intervalStart, intervalEnd))

\* the keys of the frameStates Map in insertion order: the frame indices of
\* the selected events in order of first appearance
RECURSIVE FrameStateKeys(_, _)
FrameStateKeys(sel, keys) ==
    IF sel = <<>> THEN keys
    ELSE FrameStateKeys(Tail(sel),
             IF IndexOf(keys, Head(sel).frame) = 0
             THEN Append(keys, Head(sel).frame) ELSE keys)

HasOpen(sel, f) == \E i \in 1..Len(sel) : sel[i].frame = f /\ sel[i].type = "O"
HasClose(sel, f) == \E i \in 1..Len(sel) : sel[i].frame = f /\ sel[i].type = "C"

\* variant: hasClose is not looked at for a frame with an Open
SyntheticFor_CloseWheneverOpen(sel, f, intervalStart, intervalEnd) ==
    IF HasOpen(sel, f)
    THEN <<[type |-> "C", frame |-> f, at |-> ParseInt(intervalEnd)]>>
    ELSE IF HasClose(sel, f)
    THEN <<[type |-> "O", frame |-> f, at |-> ParseInt(intervalStart)]>>
    ELSE <<>>

\* variant: open/close tracked per call instance, by counting
SyntheticFor_PerInstance(sel, f, intervalStart, intervalEnd) ==
    LET opens == Cardinality({i \in 1..Len(sel) : sel[i].frame = f /\ sel[i].type = "O"})
        closes == Cardinality({i \in 1..Len(sel) : sel[i].frame = f /\ sel[i].type = "C"})
    IN  IF opens > closes
        THEN <<[type |-> "C", frame |-> f, at |-> ParseInt(intervalEnd)]>>
        ELSE IF closes > opens
        THEN <<[type |-> "O", frame |-> f, at |-> ParseInt(intervalStart)]>>
        ELSE <<>>

\* second pass: one iteration of the loop over frameStates
SyntheticFor(sel, f, intervalStart, intervalEnd) ==
    IF HasOpen(sel, f) /\ ~HasClose(sel, f)
    THEN <<[type |-> "C", frame |-> f, at |-> ParseInt(intervalEnd)]>>
    ELSE IF ~HasOpen(sel, f) /\ HasClose(sel, f)
    THEN <<[type |-> "O", frame |-> f, at |-> ParseInt(intervalStart)]>>
    ELSE <<>>

RECURSIVE SyntheticLoop(_, _, _, _)
SyntheticLoop(sel, keys, intervalStart, intervalEnd) ==
    IF keys = <<>> THEN <<>>
    ELSE SyntheticFor(sel, Head(keys), intervalStart, intervalEnd)
         \o SyntheticLoop(sel, Tail(keys), intervalStart, intervalEnd)

\* Array.prototype.sort((a, b) => a.at - b.at): stable, ascending by at
RECURSIVE InsertByAt(_, _)
InsertByAt(sorted, ev) ==
    IF sorted = <<>> THEN <<ev>>
    ELSE IF Last(sorted).at <= ev.at THEN Append(sorted, ev)
    ELSE Append(InsertByAt(SubSeq(sorted, 1, Len(sorted) - 1), ev), Last(sorted))

RECURSIVE SortLoop(_, _)
SortLoop(evs, sorted) ==
    IF evs = <<>> THEN sorted ELSE SortLoop(Tail(evs), InsertByAt(sorted, Head(evs)))

\* variant: no sort
SortByAt_None(evs) == evs

SortByAt(evs) == SortLoop(evs, <<>>)

filterEventsWithContext(evs, intervalStart, intervalEnd) ==
    LET filteredEvents == SelectedEvents(evs, intervalStart, intervalEnd)
        syntheticEvents == SyntheticLoop(filteredEvents, FrameStateKeys(filteredEvents, <<>>),
                                         intervalStart, intervalEnd)
    IN  SortByAt(filteredEvents \o syntheticEvents)

----------------------------------------------------------------------------
(* Frame compactor *)

\* the keys of the oldToNew Map in insertion order: old frame indices in
\* order of first reference
RECURSIVE OldToNewKeys(_, _)
OldToNewKeys(evs, keys) ==
    IF evs = <<>> THEN keys
    ELSE OldToNewKeys(Tail(evs),
             IF IndexOf(keys, Head(evs).frame) = 0
             THEN Append(keys, Head(evs).frame) ELSE keys)

\* variant: the referenced frames keep the order they have in the old table
compressFramesAndRemap_OldOrder(frames, evs) ==
    LET refs == {evs[i].frame : i \in 1..Len(evs)}
        rank(f) == Cardinality({g \in refs : g < f})
    IN  [frames |-> [k \in 1..Cardinality(refs) |->
                        frames[(CHOOSE f \in refs : rank(f) = k - 1) + 1]],
         events |-> [i \in 1..Len(evs) |-> [evs[i] EXCEPT !.frame = rank(evs[i].frame)]]]

\* variant: the new index is always newFrames.length - 1 of the first push
compressFramesAndRemap_Collapse(frames, evs) ==
    [frames |-> IF evs = <<>> THEN <<>> ELSE <<frames[evs[1].frame + 1]>>,
     events |-> [i \in 1..Len(evs) |-> [evs[i] EXCEPT !.frame = 0]]]

\* variant: the events are renumbered but the whole table is kept
compressFramesAndRemap_KeepTable(frames, evs) ==
    LET keys == OldToNewKeys(evs, <<>>)
    IN  [frames |-> frames,
         events |-> [i \in 1..Len(evs) |->
                        [evs[i] EXCEPT !.frame = IndexOf(keys, evs[i].frame) - 1]]]

\* variant: newFrames.unshift instead of newFrames.push, the indices still
\* handed out in order of first reference
compressFramesAndRemap_Unshift(frames, evs) ==
    LET keys == OldToNewKeys(evs, <<>>)
    IN  [frames |-> [k \in 1..Len(keys) |-> frames[keys[Len(keys) + 1 - k] + 1]],
         events |-> [i \in 1..Len(evs) |->
                        [evs[i] EXCEPT !.frame = IndexOf(keys, evs[i].frame) - 1]]]

compressFramesAndRemap(frames, evs) ==
    LET keys == OldToNewKeys(evs, <<>>)
    IN  [frames |-> [k \in 1..Len(keys) |-> frames[keys[k] + 1]],
         events |-> [i \in 1..Len(evs) |->
                        [evs[i] EXCEPT !.frame = IndexOf(keys, evs[i].frame) - 1]]]

----------------------------------------------------------------------------
(* Serializer *)

ProfileName == "Test Profile"
WeightUnit == "milliseconds"

\* startValue/endValue of the exported document: first and last event of the
\* sorted list, 0 when the list is empty
\* variant: an empty list gives a start value below 0
ProfileStartValue_EmptyBelowZero(sortedEvents) ==
    IF Len(sortedEvents) > 0 THEN ParseInt(sortedEvents[1].at) ELSE 0 - Scale

ProfileStartValue(sortedEvents) ==
    IF Len(sortedEvents) > 0 THEN ParseInt(sortedEvents[1].at) ELSE 0

\* variant: endValue taken from the first event
ProfileEndValue_First(sortedEvents) ==
    IF Len(sortedEvents) > 0 THEN ParseInt(sortedEvents[1].at) ELSE 0

ProfileEndValue(sortedEvents) ==
    IF Len(sortedEvents) > 0 THEN ParseInt(Last(sortedEvents).at) ELSE 0

\* the events array is sorted in place before the document is built
ExportedData(frames, evs) ==
    LET sortedEvents == SortByAt(evs)
    IN  [kind |-> "evented", name |-> ProfileName, unit |-> WeightUnit,
         frames |-> frames,
         startValue |-> ProfileStartValue(sortedEvents),
         endValue |-> ProfileEndValue(sortedEvents),
         events |-> sortedEvents]

----------------------------------------------------------------------------
(* Call-tree profile builder and total weight *)

NoNode == 0
Unset == 0 - 1

NewNode(f, parent, t) == [frame |-> f, parent |-> parent, enter |-> t, leave |-> Unset]

TopLevel(ns) == {i \in 1..Len(ns) : ns[i].parent = NoNode}

\* weight coordinate at which the root interval closes minus the one at
\* which it opens
TotalWeight(ns) ==
    IF ns = <<>> THEN 0
    ELSE LET first == CHOOSE i \in TopLevel(ns) : \A j \in TopLevel(ns) : i <= j
             last == CHOOSE i \in TopLevel(ns) : \A j \in TopLevel(ns) : j <= i
         IN  ns[last].leave - ns[first].enter

----------------------------------------------------------------------------
(* Deserializer: replay of the event stream against one call stack *)

\* one event applied to st = [ns, stk]: ns the nodes created so far in
\* creation order, stk the indices into ns of the nodes still open
ReplayEvent(st, ev) ==
    IF ev.type = "O"
    THEN [ns |-> Append(st.ns,
                     NewNode(ev.frame,
                             IF st.stk = <<>> THEN NoNode ELSE Last(st.stk), ev.at)),
          stk |-> Append(st.stk, Len(st.ns) + 1)]
    ELSE LET k == IF \E i \in 1..Len(st.stk) : st.ns[st.stk[i]].frame = ev.frame
                  THEN CHOOSE i \in 1..Len(st.stk) :
                          /\ st.ns[st.stk[i]].frame = ev.frame
                          /\ \A j \in (i+1)..Len(st.stk) : st.ns[st.stk[j]].frame # ev.frame
                  ELSE 0
         IN  IF k = 0 THEN st
             ELSE [ns |-> [st.ns EXCEPT ![st.stk[k]].leave = ev.at],
                   stk |-> RemoveAt(st.stk, k)]

RECURSIVE Replay(_, _)
Replay(st, evs) ==
    IF evs = <<>> THEN st ELSE Replay(ReplayEvent(st, Head(evs)), Tail(evs))

\* nodes still open after the last event leave at the last event's weight
CloseRemaining(ns, lastAt) ==
    [i \in 1..Len(ns) |-> IF ns[i].leave = Unset THEN [ns[i] EXCEPT !.leave = lastAt] ELSE ns[i]]

UnknownFrameReference(d) ==
    \E i \in 1..Len(d.events) : d.events[i].frame < 0 \/ d.events[i].frame >= Len(d.frames)

\* variant: the total weight is taken from the extent of the events
ImportDocument_EventExtent(d) ==
    IF UnknownFrameReference(d) THEN [ok |-> FALSE]
    ELSE LET st == Replay([ns |-> <<>>, stk |-> <<>>], d.events)
         IN  [ok |-> TRUE, name |-> d.name, unit |-> d.unit,
              totalWeight |-> IF d.events = <<>> THEN 0
                              ELSE Last(d.events).at - d.events[1].at,
              frames |-> d.frames,
              nodes |-> IF d.events = <<>> THEN <<>>
                        ELSE CloseRemaining(st.ns, Last(d.events).at)]

ImportDocument(d) ==
    IF UnknownFrameReference(d) THEN [ok |-> FALSE]
    ELSE LET st == Replay([ns |-> <<>>, stk |-> <<>>], d.events)
         IN  [ok |-> TRUE, name |-> d.name, unit |-> d.unit,
              totalWeight |-> d.endValue - d.startValue,
              frames |-> d.frames,
              nodes |-> IF d.events = <<>> THEN <<>>
                        ELSE CloseRemaining(st.ns, Last(d.events).at)]

----------------------------------------------------------------------------
(* Whole-profile export (no window) *)

\* frameOf maps a node's frame to its serialized form
ExportProfile(ns, frameOf) ==
    LET enc == Encode(ns)
        c == compressFramesAndRemap([i \in 1..Len(enc.tab) |-> frameOf[enc.tab[i]]], enc.evs)
    IN  ExportedData(c.frames, c.events)

ExportOriginal(ns) ==
    ExportProfile(ns, [f \in {ns[i].frame : i \in 1..Len(ns)} |-> SerializedFrame(f)])

ExportImported(imp) ==
    ExportProfile(imp.nodes, [idx \in 0..(Len(imp.frames) - 1) |-> imp.frames[idx + 1]])

----------------------------------------------------------------------------
(* State machine *)

NoImport == [ok |-> FALSE]

\* tokenCache: no entry, no call made yet; the time is Date.now()
EmptyCache == {}
NoCall == [op |-> "none"]

\* Application state of the send to the LLM: nothing sent, no overlay
NotSending == [pc |-> "idle", showIntervalSelector |-> FALSE, showLoadingScreen |-> FALSE,
               selectedStartValue |-> 0, selectedEndValue |-> 0,
               alert |-> "none", jsonData |-> NoDoc]

\* preview generations in flight and the views they have set
NoGenerations == <<>>
NoViews == [json |-> NoDoc, condensed |-> NoDoc, text |-> NoDoc]

Init ==
    /\ pc = "building"
    /\ nodes = <<>>
    /\ stack = <<>>
    /\ now = 0
    /\ startValue = 0
    /\ endValue = 0
    /\ variant = "none"
    /\ events = <<>>
    /\ filtered = <<>>
    /\ doc = NoDoc
    /\ failure = "none"
    /\ imported = NoImport
    /\ doc2 = NoDoc
    /\ frameTable = <<>>
    /\ gens = NoGenerations
    /\ views = NoViews
    /\ cache = EmptyCache
    /\ clock = 0
    /\ call = NoCall
    /\ send = NotSending

UsedFrames == {nodes[i].frame : i \in 1..Len(nodes)}

\* builder.enterFrame(frameInfo, value)
EnterFrame(f, t) ==
    /\ pc = "building"
    /\ Len(nodes) < MaxNodes
    /\ t >= now
    /\ \A g \in FrameIds : g < f => g \in UsedFrames
    /\ nodes' = Append(nodes, NewNode(f, IF stack = <<>> THEN NoNode ELSE Last(stack), t))
    /\ stack' = Append(stack, Len(nodes) + 1)
    /\ now' = t
    /\ UNCHANGED <<pc, startValue, endValue, variant, events, filtered, doc, failure,
                   imported, doc2>>
    /\ UNCHANGED <<frameTable, gens, views>>
    /\ UNCHANGED <<cache, clock, call, send>>

\* builder.leaveFrame(frameInfo, value)
LeaveFrame(t) ==
    /\ pc = "building"
    /\ stack # <<>>
    /\ t >= now
    /\ nodes' = [nodes EXCEPT ![Last(stack)].leave = t]
    /\ stack' = SubSeq(stack, 1, Len(stack) - 1)
    /\ now' = t
    /\ UNCHANGED <<pc, startValue, endValue, variant, events, filtered, doc, failure,
                   imported, doc2>>
    /\ UNCHANGED <<frameTable, gens, views>>
    /\ UNCHANGED <<cache, clock, call, send>>

\* builder.build()
Build ==
    /\ pc = "building"
    /\ stack = <<>>
    /\ pc' = "built"
    /\ UNCHANGED <<nodes, stack, now, startValue, endValue, variant, events, filtered,
                   doc, failure, imported, doc2>>
    /\ UNCHANGED <<frameTable, gens, views>>
    /\ UNCHANGED <<cache, clock, call, send>>

\* variant: the compactor writes the new index into the event objects it
\* is given, which are the objects of the full event list
EventsAfterExport_RemapInPlace(evs, filteredEvents) ==
    LET keys == OldToNewKeys(filteredEvents, <<>>)
    IN  [i \in 1..Len(evs) |->
            IF \E k \in 1..Len(filteredEvents) : filteredEvents[k] = evs[i]
            THEN [evs[i] EXCEPT !.frame = IndexOf(keys, evs[i].frame) - 1]
            ELSE evs[i]]

\* the full event list after filter, compactor and serializer have run: the
\* filter only reads it and pushes its objects to a new array, the compactor
\* copies every event it remaps, the sorts act on the new arrays
EventsAfterExport(evs, filteredEvents) == evs

\* variant: the compactor drops the unreferenced frames from the table it
\* is given
FramesAfterExport_Spliced(fullFrames, filteredEvents) ==
    compressFramesAndRemap(fullFrames, filteredEvents).frames

\* the full frame table after the export: only read, the compactor pushes
\* to a new array
FramesAfterExport(fullFrames, filteredEvents) == fullFrames

\* "Export JSON" with frame compaction; s, e are the component's
\* startValue/endValue
HandleExportJson(s, e) ==
    /\ pc = "built"
    /\ LET enc == Encode(nodes)
           evs == enc.evs
           filteredEvents == filterEventsWithContext(evs, s, e)
           compressed == compressFramesAndRemap(FramesOf(enc.tab), filteredEvents)
       IN  /\ events' = EventsAfterExport(evs, filteredEvents)
           /\ frameTable' = FramesAfterExport(FramesOf(enc.tab), filteredEvents)
           /\ filtered' = filteredEvents
           /\ doc' = ExportedData(compressed.frames, compressed.events)
    /\ startValue' = s
    /\ endValue' = e
    /\ variant' = "compressed"
    /\ failure' = "none"
    /\ pc' = "exported"
    /\ UNCHANGED <<nodes, stack, now, imported, doc2, gens, views>>
    /\ UNCHANGED <<cache, clock, call, send>>

\* the JSON sent to the LLM, and "Export JSON" of the preview dialog: the
\* whole frame table is kept
GenerateFilteredJsonData(s, e) ==
    /\ pc = "built"
    /\ LET enc == Encode(nodes)
           evs == enc.evs
           filteredEvents == filterEventsWithContext(evs, s, e)
       IN  /\ events' = EventsAfterExport(evs, filteredEvents)
           /\ frameTable' = FramesAfterExport(FramesOf(enc.tab), filteredEvents)
           /\ filtered' = filteredEvents
           /\ doc' = ExportedData(FramesOf(enc.tab), filteredEvents)
    /\ startValue' = s
    /\ endValue' = e
    /\ variant' = "plain"
    /\ failure' = "none"
    /\ pc' = "exported"
    /\ UNCHANGED <<nodes, stack, now, imported, doc2, gens, views>>
    /\ UNCHANGED <<cache, clock, call, send>>

\* exportProfileGroup: the whole profile
ExportProfileGroup ==
    /\ pc = "built"
    /\ events' = EncodedEvents(nodes)
    /\ frameTable' = EncodedFrames(nodes)
    /\ filtered' = EncodedEvents(nodes)
    /\ doc' = ExportOriginal(nodes)
    /\ variant' = "full"
    /\ failure' = "none"
    /\ pc' = "exported"
    /\ UNCHANGED <<nodes, stack, now, startValue, endValue, imported, doc2, gens, views>>
    /\ UNCHANGED <<cache, clock, call, send>>

\* importSpeedscopeProfiles(document)
ImportSpeedscopeProfiles ==
    /\ pc = "exported"
    /\ imported' = ImportDocument(doc)
    /\ pc' = "imported"
    /\ UNCHANGED <<nodes, stack, now, startValue, endValue, variant, events, filtered,
                   doc, failure, doc2>>
    /\ UNCHANGED <<frameTable, gens, views>>
    /\ UNCHANGED <<cache, clock, call, send>>

\* exportProfileGroup(imported)
ReExport ==
    /\ pc = "imported"
    /\ imported.ok
    /\ doc2' = ExportImported(imported)
    /\ pc' = "reexported"
    /\ UNCHANGED <<nodes, stack, now, startValue, endValue, variant, events, filtered,
                   doc, failure, imported>>
    /\ UNCHANGED <<frameTable, gens, views>>
    /\ UNCHANGED <<cache, clock, call, send>>

----------------------------------------------------------------------------
(* The test profile and the documents the tests build by hand *)

\* the number v of the program
T(v) == v * Scale

\* main() -> functionA() -> functionB() -> functionC(), functionA() -> functionD()
TestProfile ==
    << [frame |-> 1, parent |-> NoNode, enter |-> T(0), leave |-> T(900)],
       [frame |-> 2, parent |-> 1, enter |-> T(100), leave |-> T(800)],
       [frame |-> 3, parent |-> 2, enter |-> T(200), leave |-> T(500)],
       [frame |-> 4, parent |-> 3, enter |-> T(300), leave |-> T(400)],
       [frame |-> 5, parent |-> 2, enter |-> T(600), leave |-> T(700)] >>

ScenarioValues == {T(100 * k) : k \in 0..MaxWindow}

\* openedAt / closedAt: the frames with an event of type ty in sel, in
\* insertion order
RECURSIVE MapKeys(_, _, _)
MapKeys(sel, ty, keys) ==
    IF sel = <<>> THEN keys
    ELSE MapKeys(Tail(sel), ty,
             IF Head(sel).type = ty /\ IndexOf(keys, Head(sel).frame) = 0
             THEN Append(keys, Head(sel).frame) ELSE keys)

\* synthetic opens at startValue for the frames closed but not opened
MockSyntheticOpens(closedAt, openedAt, s) ==
    LET missing == SelectSeq(closedAt, LAMBDA f : IndexOf(openedAt, f) = 0)
    IN  [i \in 1..Len(missing) |-> [type |-> "O", frame |-> missing[i], at |-> s]]

\* synthetic closes at endValue for the frames opened (the synthetic opens
\* included) but not closed
MockSyntheticCloses(openedAt, closedAt, e) ==
    LET missing == SelectSeq(openedAt, LAMBDA f : IndexOf(closedAt, f) = 0)
    IN  [i \in 1..Len(missing) |-> [type |-> "C", frame |-> missing[i], at |-> e]]

mockFilterEventsWithContext(evs, s, e) ==
    LET sel == SelectSeq(evs, LAMBDA ev : ev.at >= s /\ ev.at <= e)
        openedAt == MapKeys(sel, "O", <<>>)
        closedAt == MapKeys(sel, "C", <<>>)
        opens == MockSyntheticOpens(closedAt, openedAt, s)
        openedAt2 == openedAt \o [i \in 1..Len(opens) |-> opens[i].frame]
        closes == MockSyntheticCloses(openedAt2, closedAt, e)
    IN  SortByAt(sel \o opens \o closes)

InitScenario ==
    /\ pc = "built"
    /\ nodes = TestProfile
    /\ stack = <<>>
    /\ now = T(900)
    /\ startValue = 0
    /\ endValue = 0
    /\ variant = "none"
    /\ events = <<>>
    /\ filtered = <<>>
    /\ doc = NoDoc
    /\ failure = "none"
    /\ imported = NoImport
    /\ doc2 = NoDoc
    /\ frameTable = <<>>
    /\ gens = NoGenerations
    /\ views = NoViews
    /\ cache = EmptyCache
    /\ clock = 0
    /\ call = NoCall
    /\ send = NotSending

\* the filtered export of the tests: the events of exportProfileGroup are
\* filtered, the document keeps the whole table and gets the window as
\* startValue and endValue
TestFilteredExport(s, e) ==
    /\ pc = "built"
    /\ LET exported == ExportOriginal(nodes)
           filteredEvents == mockFilterEventsWithContext(exported.events, s, e)
       IN  /\ events' = exported.events
           /\ frameTable' = exported.frames
           /\ filtered' = filteredEvents
           /\ doc' = [kind |-> "evented", name |-> ProfileName, unit |-> WeightUnit,
                      frames |-> exported.frames,
                      startValue |-> s, endValue |-> e,
                      events |-> filteredEvents]
    /\ startValue' = s
    /\ endValue' = e
    /\ variant' = "manual"
    /\ failure' = "none"
    /\ pc' = "exported"
    /\ UNCHANGED <<nodes, stack, now, imported, doc2, gens, views>>
    /\ UNCHANGED <<cache, clock, call, send>>

NextScenario ==
    \/ \E s \in ScenarioValues, e \in ScenarioValues : HandleExportJson(s, e)
    \/ \E s \in ScenarioValues, e \in ScenarioValues : GenerateFilteredJsonData(s, e)
    \/ \E s \in ScenarioValues, e \in ScenarioValues : TestFilteredExport(s, e)
    \/ ExportProfileGroup
    \/ ImportSpeedscopeProfiles
    \/ ReExport

SpecScenario == InitScenario /\ [][NextScenario]_vars

----------------------------------------------------------------------------
(* Previews: generateJsonPreview and generateCondensedView run as chains of *)
(* timer callbacks; handleExportText runs in one piece                     *)

PreviewWindows == {<<T(200), T(600)>>, <<T(200), T(300)>>, <<T(400), T(400)>>}

\* the call stack of the condensed view after one event
CallStackStep(callStack, event) ==
    IF event.type = "O" THEN Append(callStack, event.frame)
    ELSE LET frameIndex == LastIndexOf(callStack, event.frame)
         IN  IF frameIndex # 0 THEN RemoveAt(callStack, frameIndex) ELSE callStack

\* stackHistory: the time of every event and the stack after it
RECURSIVE StackHistory(_, _)
StackHistory(callStack, evs) ==
    IF evs = <<>> THEN <<>>
    ELSE LET after == CallStackStep(callStack, Head(evs))
         IN  <<[time |-> Head(evs).at, stack |-> after]>> \o StackHistory(after, Tail(evs))

\* the stack of the text export, top first, after one event
TextStackStep(stk, ev) ==
    IF ev.type = "O" THEN <<ev.frame>> \o stk
    ELSE LET idx == IndexOf(stk, ev.frame)
         IN  IF idx # 0 THEN RemoveAt(stk, idx) ELSE stk

\* the loop of the text export over the filtered events: st = [stk,
\* prevTime, lines]
RECURSIVE TextLoop(_, _)
TextLoop(st, evs) ==
    IF evs = <<>> THEN st
    ELSE LET ev == Head(evs)
             duration == ev.at - st.prevTime
         IN  TextLoop([stk |-> TextStackStep(st.stk, ev),
                       prevTime |-> ev.at,
                       lines |-> IF duration > 0 /\ st.stk # <<>>
                                 THEN Append(st.lines, [stack |-> st.stk, duration |-> duration])
                                 ELSE st.lines],
                      Tail(evs))

TextLines(filteredEvents, s, e) ==
    LET st == TextLoop([stk |-> <<>>,
                        prevTime |-> IF Len(filteredEvents) > 0 THEN filteredEvents[1].at ELSE s,
                        lines |-> <<>>], filteredEvents)
        tailDuration == e - st.prevTime
    IN  IF tailDuration > 0 /\ st.stk # <<>>
        THEN Append(st.lines, [stack |-> st.stk, duration |-> tailDuration])
        ELSE st.lines

\* variant: the frames and events arrays are those of the first generation
LocalArrays_Shared(gs, g) == [tab |-> gs[1].tab, evs |-> gs[1].evs]

\* the frames/indexForFrame and events arrays of generation g: declared
\* inside the callback, one set per invocation
LocalArrays(gs, g) == [tab |-> gs[g].tab, evs |-> gs[g].evs]

InitPreview ==
    /\ pc = "built"
    /\ nodes = TestProfile
    /\ stack = <<>>
    /\ now = T(900)
    /\ startValue = 0
    /\ endValue = 0
    /\ variant = "none"
    /\ events = <<>>
    /\ filtered = <<>>
    /\ doc = NoDoc
    /\ failure = "none"
    /\ imported = NoImport
    /\ doc2 = NoDoc
    /\ frameTable = <<>>
    /\ gens = NoGenerations
    /\ views = NoViews
    /\ cache = EmptyCache
    /\ clock = 0
    /\ call = NoCall
    /\ send = NotSending

pipelineVars == <<pc, nodes, stack, now, variant, events, filtered, doc, failure,
                  imported, doc2, frameTable>>

\* the interval is set and the effect starts generatePreviews: the
\* callback of generateJsonPreview runs up to its first setTimeout
StartGeneration(w) ==
    /\ Len(gens) < MaxGens
    /\ startValue' = w[1]
    /\ endValue' = w[2]
    /\ gens' = Append(gens, [pc |-> "j_encode", s |-> w[1], e |-> w[2],
                             tab |-> <<>>, evs |-> <<>>, json |-> NoDoc, condensed |-> NoDoc])
    /\ UNCHANGED <<pipelineVars, views>>
    /\ UNCHANGED <<cache, clock, call, send>>

\* timer: originalProfile.forEachCall(openFrame, closeFrame)
EncodeStep(g, from, to) ==
    /\ gens[g].pc = from
    /\ LET acc == ForEachCall(nodes, 1, <<>>, LocalArrays(gens, g))
       IN  gens' = [gens EXCEPT ![g].pc = to, ![g].tab = acc.tab, ![g].evs = acc.evs]
    /\ UNCHANGED <<pipelineVars, startValue, endValue, views>>
    /\ UNCHANGED <<cache, clock, call, send>>

JsonEncode(g) == EncodeStep(g, "j_encode", "j_filter")

\* timer: filterEventsWithContext; then the document is built
JsonFilter(g) ==
    /\ gens[g].pc = "j_filter"
    /\ LET filteredEvents == filterEventsWithContext(gens[g].evs, gens[g].s, gens[g].e)
       IN  gens' = [gens EXCEPT ![g].pc = "j_stringify",
                                ![g].json = ExportedData(FramesOf(gens[g].tab), filteredEvents)]
    /\ UNCHANGED <<pipelineVars, startValue, endValue, views>>
    /\ UNCHANGED <<cache, clock, call, send>>

\* timer: JSON.stringify; setJsonPreview; then generateCondensedView starts
\* with new arrays and runs up to its first setTimeout
JsonStringify(g) ==
    /\ gens[g].pc = "j_stringify"
    /\ views' = [views EXCEPT !.json = gens[g].json]
    /\ gens' = [gens EXCEPT ![g].pc = "c_encode", ![g].tab = <<>>, ![g].evs = <<>>]
    /\ UNCHANGED <<pipelineVars, startValue, endValue>>
    /\ UNCHANGED <<cache, clock, call, send>>

CondensedEncode(g) == EncodeStep(g, "c_encode", "c_filter")

\* timer: filterEventsWithContext; then the document with the window as
\* startValue/endValue and the stack history; setCondensedView
CondensedFilter(g) ==
    /\ gens[g].pc = "c_filter"
    /\ LET filteredEvents == filterEventsWithContext(gens[g].evs, gens[g].s, gens[g].e)
           result == [kind |-> "condensed", frames |-> FramesOf(gens[g].tab),
                      startValue |-> gens[g].s, endValue |-> gens[g].e,
                      events |-> filteredEvents,
                      stackHistory |-> StackHistory(<<>>, SortByAt(filteredEvents))]
       IN  /\ gens' = [gens EXCEPT ![g].pc = "done", ![g].condensed = result]
           /\ views' = [views EXCEPT !.condensed = result]
    /\ UNCHANGED <<pipelineVars, startValue, endValue>>
    /\ UNCHANGED <<cache, clock, call, send>>

\* "Export Text" for the current interval
HandleExportText ==
    /\ Len(gens) > 0
    /\ LET enc == Encode(nodes)
           filteredEvents == SortByAt(filterEventsWithContext(enc.evs, startValue, endValue))
           compressed == compressFramesAndRemap(FramesOf(enc.tab), filteredEvents)
       IN  views' = [views EXCEPT !.text =
                        [kind |-> "text", startValue |-> startValue, endValue |-> endValue,
                         symbols |-> [i \in 1..Len(compressed.frames) |-> compressed.frames[i].name],
                         lines |-> TextLines(compressed.events, startValue, endValue)]]
    /\ UNCHANGED <<pipelineVars, startValue, endValue, gens>>
    /\ UNCHANGED <<cache, clock, call, send>>

NextPreview ==
    \/ \E w \in PreviewWindows : StartGeneration(w)
    \/ \E g \in 1..Len(gens) : JsonEncode(g)
    \/ \E g \in 1..Len(gens) : JsonFilter(g)
    \/ \E g \in 1..Len(gens) : JsonStringify(g)
    \/ \E g \in 1..Len(gens) : CondensedEncode(g)
    \/ \E g \in 1..Len(gens) : CondensedFilter(g)
    \/ HandleExportText

SpecPreview == InitPreview /\ [][NextPreview]_vars

----------------------------------------------------------------------------
(* TokenCache: OAuth tokens in a Map keyed by a 32-bit hash of             *)
(* url + ':' + clientId.  Strings are sequences of UTF-16 code units.      *)

\* "Aa", "BB", "Ab"
Urls == {<<65, 97>>, <<66, 66>>, <<65, 98>>}
\* "c"
ClientIds == {<<99>>}
Colon == 58

Half == 65536

\* hash = ((hash << 5) - hash) + char; hash = hash & hash: 31 * hash + char
\* wrapped to 32 bits; h = [hi, lo] are the two 16-bit halves of the
\* two's-complement value
HashStep(h, char) ==
    LET low == h.lo * 31 + char
    IN  [hi |-> (h.hi * 31 + low \div Half) % Half, lo |-> low % Half]

RECURSIVE HashLoop(_, _)
HashLoop(h, key) == IF key = <<>> THEN h ELSE HashLoop(HashStep(h, Head(key)), Tail(key))

\* Math.abs of the 32-bit value, again as two halves
Abs32(h) ==
    IF h.hi < Half \div 2 THEN h
    ELSE [hi |-> (Half - h.hi - (IF h.lo = 0 THEN 0 ELSE 1)) % Half,
          lo |-> (Half - h.lo) % Half]

\* getCacheKey: toString(36) and the prefix are one-to-one, so the key is
\* the absolute value of the hash
getCacheKey(url, clientId) ==
    Abs32(HashLoop([hi |-> 0, lo |-> 0], url \o <<Colon>> \o clientId))

BufferTime == 5 * 60 * 1000
DefaultExpiresIn == 3600
\* expires_in of the token response in seconds; 0 stands for a response
\* without expires_in
ExpiresInValues == {0, 300, 600}

\* the access token the OAuth server at url issued to clientId
AccessToken(url, clientId) == [url |-> url, clientId |-> clientId]

\* getToken's null
NoToken == [url |-> <<>>, clientId |-> <<>>]

HasKey(c, key) == \E en \in c : en.key = key
Entry(c, key) == CHOOSE en \in c : en.key = key
Delete(c, key) == {en \in c : en.key # key}

\* variant: a token is expired only after the buffer has passed
IsExpired_AfterBuffer(cachedToken, t) == cachedToken.expires_at < t + BufferTime

\* cachedToken.expires_at <= now + bufferTime
IsExpired(cachedToken, t) == cachedToken.expires_at <= t + BufferTime

\* the value getToken returns for the cache c at time t
GetTokenResult(c, key, t) ==
    IF ~HasKey(c, key) THEN NoToken
    ELSE IF IsExpired(Entry(c, key), t) THEN NoToken
    ELSE Entry(c, key).access_token

\* the cache after getToken
GetTokenCache(c, key, t) ==
    IF HasKey(c, key) /\ IsExpired(Entry(c, key), t) THEN Delete(c, key) ELSE c

InitTokens ==
    /\ pc = "building"
    /\ nodes = <<>>
    /\ stack = <<>>
    /\ now = 0
    /\ startValue = 0
    /\ endValue = 0
    /\ variant = "none"
    /\ events = <<>>
    /\ filtered = <<>>
    /\ doc = NoDoc
    /\ failure = "none"
    /\ imported = NoImport
    /\ doc2 = NoDoc
    /\ frameTable = <<>>
    /\ gens = NoGenerations
    /\ views = NoViews
    /\ cache = EmptyCache
    /\ clock = 0
    /\ call = NoCall
    /\ send = NotSending

exportVars == <<pc, nodes, stack, now, startValue, endValue, variant, events, filtered,
                doc, failure, imported, doc2, frameTable, gens, views, send>>

\* tokenCache.setToken(config, clientId, tokenResponse)
SetToken(url, clientId, expires_in) ==
    LET expiresIn == IF expires_in # 0 THEN expires_in ELSE DefaultExpiresIn
        cacheKey == getCacheKey(url, clientId)
        cachedToken == [key |-> cacheKey,
                        access_token |-> AccessToken(url, clientId),
                        expires_at |-> clock + expiresIn * 1000]
    IN  /\ cache' = Delete(cache, cacheKey) \cup {cachedToken}
        /\ call' = [op |-> "setToken", url |-> url, clientId |-> clientId,
                    at |-> clock, result |-> NoToken]
        /\ UNCHANGED <<clock, exportVars>>

\* tokenCache.getToken(config, clientId)
GetToken(url, clientId) ==
    LET cacheKey == getCacheKey(url, clientId)
    IN  /\ cache' = GetTokenCache(cache, cacheKey, clock)
        /\ call' = [op |-> "getToken", url |-> url, clientId |-> clientId,
                    at |-> clock, result |-> GetTokenResult(cache, cacheKey, clock),
                    deleted |-> GetTokenCache(cache, cacheKey, clock) # cache]
        /\ UNCHANGED <<clock, exportVars>>

\* tokenCache.hasValidToken(config, clientId)
HasValidToken(url, clientId) ==
    LET cacheKey == getCacheKey(url, clientId)
    IN  /\ cache' = GetTokenCache(cache, cacheKey, clock)
        /\ call' = [op |-> "hasValidToken", url |-> url, clientId |-> clientId,
                    at |-> clock, result |-> GetTokenResult(cache, cacheKey, clock) # NoToken]
        /\ UNCHANGED <<clock, exportVars>>

\* tokenCache.clearToken(config, clientId)
ClearToken(url, clientId) ==
    /\ cache' = Delete(cache, getCacheKey(url, clientId))
    /\ call' = [op |-> "clearToken", url |-> url, clientId |-> clientId,
                at |-> clock, result |-> NoToken]
    /\ UNCHANGED <<clock, exportVars>>

\* tokenCache.clearAll()
ClearAll ==
    /\ cache' = EmptyCache
    /\ call' = [op |-> "clearAll", at |-> clock, result |-> NoToken]
    /\ UNCHANGED <<clock, exportVars>>

\* five minutes pass
Tick ==
    /\ clock < MaxTicks * BufferTime
    /\ clock' = clock + BufferTime
    /\ UNCHANGED <<cache, call, exportVars>>

NextTokens ==
    \/ \E url \in Urls, clientId \in ClientIds, expires_in \in ExpiresInValues :
           SetToken(url, clientId, expires_in)
    \/ \E url \in Urls, clientId \in ClientIds : GetToken(url, clientId)
    \/ \E url \in Urls, clientId \in ClientIds : HasValidToken(url, clientId)
    \/ \E url \in Urls, clientId \in ClientIds : ClearToken(url, clientId)
    \/ ClearAll
    \/ Tick

SpecTokens == InitTokens /\ [][NextTokens]_vars

----------------------------------------------------------------------------
(* Send to the LLM: Application.sendToAPI opens the interval selector,     *)
(* IntervalSelector.handleConfirm hands the interval and the stored JSON   *)
(* to Application.handleIntervalConfirm                                    *)

\* a run of generatePreviews for the interval w, up to its first timer
NewGeneration(w) ==
    [pc |-> "j_encode", s |-> w[1], e |-> w[2],
     tab |-> <<>>, evs |-> <<>>, json |-> NoDoc, condensed |-> NoDoc]

FormStates == {"complete", "no_oauth", "no_prompt"}
OAuthOutcomes == {"ok", "http_error", "no_access_token", "network_error"}
LLMOutcomes == {"ok", "http_error", "exception"}

InitSend == InitPreview

sendFrame == <<pipelineVars, cache, clock, call>>

\* sendToAPI with the selector closed: the selector is mounted with the
\* viewport interval w and its effects start generatePreviews (the two
\* effects start it twice for the same interval; the runs write the same
\* values and are one generation here)
SendToAPI_Mount(w) ==
    /\ send.pc = "idle"
    /\ ~send.showIntervalSelector
    /\ gens = NoGenerations
    /\ send' = [send EXCEPT !.showIntervalSelector = TRUE,
                            !.selectedStartValue = w[1], !.selectedEndValue = w[2]]
    /\ startValue' = w[1]
    /\ endValue' = w[2]
    /\ gens' = <<NewGeneration(w)>>
    /\ UNCHANGED <<sendFrame, views>>

\* sendToAPI with the selector open and another viewport interval: in the
\* render with the new props the effect on initialStartValue/initialEndValue
\* runs generatePreviews with the callbacks of the old interval and the
\* first effect sets startValue/endValue; the next render has new callbacks
\* and the effects run generatePreviews for the new interval
SendToAPI_Update(w) ==
    /\ send.pc = "idle"
    /\ send.showIntervalSelector
    /\ w # <<startValue, endValue>>
    /\ Len(gens) + 2 <= MaxGens + 1
    /\ send' = [send EXCEPT !.selectedStartValue = w[1], !.selectedEndValue = w[2]]
    /\ startValue' = w[1]
    /\ endValue' = w[2]
    /\ gens' = gens \o <<NewGeneration(<<startValue, endValue>>), NewGeneration(w)>>
    /\ UNCHANGED <<sendFrame, views>>

\* handleConfirm ("Send to LLM"); filteredJsonData is the document last
\* stored by setFilteredJsonData, views.json.  With a complete form and a
\* stored document, onConfirm runs handleIntervalConfirm up to its first
\* await: the fetch of the OAuth token.  The selector is rendered only with
\* an active profile, so handleIntervalConfirm finds one.
HandleConfirm(form) ==
    /\ send.pc = "idle"
    /\ send.showIntervalSelector
    /\ IF form = "no_oauth" THEN send' = [send EXCEPT !.alert = "fill in all OAuth fields"]
       ELSE IF form = "no_prompt" THEN send' = [send EXCEPT !.alert = "select a prompt"]
       ELSE IF views.json = NoDoc
       THEN send' = [send EXCEPT !.alert = "wait for the preview"]
       ELSE send' = [send EXCEPT !.showIntervalSelector = FALSE,
                                 !.selectedStartValue = startValue,
                                 !.selectedEndValue = endValue,
                                 !.showLoadingScreen = TRUE,
                                 !.alert = "none",
                                 !.jsonData = views.json,
                                 !.pc = "oauth"]
    /\ UNCHANGED <<sendFrame, startValue, endValue, gens, views>>

\* the fetch of the OAuth token settles
OAuthResponds(r) ==
    /\ send.pc = "oauth"
    /\ IF r = "ok"
       THEN send' = [send EXCEPT !.pc = "llm"]
       ELSE send' = [send EXCEPT !.pc = "returned", !.alert = "OAuth authentication failed"]
    /\ UNCHANGED <<sendFrame, startValue, endValue, gens, views>>

\* the fetch to the LLM endpoint settles
LLMResponds(r) ==
    /\ send.pc = "llm"
    /\ send' = [send EXCEPT !.pc = "returned",
                            !.showLoadingScreen = FALSE,
                            !.alert = IF r = "ok" THEN "LLM Analysis"
                                      ELSE IF r = "http_error" THEN "Failed to get LLM analysis"
                                      ELSE "Error getting LLM analysis"]
    /\ UNCHANGED <<sendFrame, startValue, endValue, gens, views>>

\* the timer callbacks of the generations; they set the selector's state
\* while it is mounted
PreviewTimer ==
    /\ send.showIntervalSelector
    /\ \E g \in 1..Len(gens) :
           \/ JsonEncode(g)
           \/ JsonFilter(g)
           \/ JsonStringify(g)
           \/ CondensedEncode(g)
           \/ CondensedFilter(g)

OAuthSettles == \E r \in OAuthOutcomes : OAuthResponds(r)
LLMSettles == \E r \in LLMOutcomes : LLMResponds(r)

NextSend ==
    \/ \E w \in PreviewWindows : SendToAPI_Mount(w)
    \/ \E w \in PreviewWindows : SendToAPI_Update(w)
    \/ \E form \in FormStates : HandleConfirm(form)
    \/ OAuthSettles
    \/ LLMSettles
    \/ PreviewTimer

SpecSend == InitSend /\ [][NextSend]_vars

\* every fetch settles: the promise of fetch resolves or rejects
SpecSendFair ==
    /\ SpecSend
    /\ WF_vars(OAuthSettles)
    /\ WF_vars(LLMSettles)

Next ==
    \/ \E f \in FrameIds, t \in Values : EnterFrame(f, t)
    \/ \E t \in Values : LeaveFrame(t)
    \/ Build
    \/ \E s \in Values, e \in Values : HandleExportJson(s, e)
    \/ \E s \in Values, e \in Values : GenerateFilteredJsonData(s, e)
    \/ ExportProfileGroup
    \/ ImportSpeedscopeProfiles
    \/ ReExport

Spec == Init /\ [][Next]_vars

----------------------------------------------------------------------------
(* Properties *)

Filtering == pc = "exported" /\ variant \in {"compressed", "plain"}

CountType(evs, f, ty) == Cardinality({i \in 1..Len(evs) : evs[i].frame = f /\ evs[i].type = ty})

FramesIn(evs) == {evs[i].frame : i \in 1..Len(evs)}

Sorted(evs) == \A i \in 1..(Len(evs) - 1) : evs[i].at <= evs[i+1].at

\* strict replay: a Close must match the frame on top of the stack
RECURSIVE StrictReplay(_, _)
StrictReplay(evs, stk) ==
    IF evs = <<>> THEN stk = <<>>
    ELSE IF Head(evs).type = "O" THEN StrictReplay(Tail(evs), Append(stk, Head(evs).frame))
    ELSE /\ stk # <<>>
         /\ Last(stk) = Head(evs).frame
         /\ StrictReplay(Tail(evs), SubSeq(stk, 1, Len(stk) - 1))

ValidEventStream(evs) == Sorted(evs) /\ StrictReplay(evs, <<>>)

MinAt(evs) == CHOOSE a \in {evs[i].at : i \in 1..Len(evs)} : \A i \in 1..Len(evs) : a <= evs[i].at
MaxAt_(evs) == CHOOSE a \in {evs[i].at : i \in 1..Len(evs)} : \A i \in 1..Len(evs) : evs[i].at <= a

\* C1: every event returned by the filter for a window start <= end lies in
\* the window
C1_WindowContainment ==
    (Filtering /\ startValue <= endValue) =>
        \A i \in 1..Len(filtered) : startValue <= filtered[i].at /\ filtered[i].at <= endValue

\* C2: the filter's output has an even number of events and as many Opens
\* as Closes for every frame index in it
C2_Balance ==
    Filtering =>
        /\ Len(filtered) % 2 = 0
        /\ \A f \in FramesIn(filtered) : CountType(filtered, f, "O") = CountType(filtered, f, "C")

\* C3: the filtered stream of a well-formed profile is a valid event stream:
\* sorted, every Close matches the top of the stack, stack empty at the end
C3_ValidStream ==
    Filtering => ValidEventStream(filtered)

\* C4: importing the filtered document and exporting the imported profile
\* gives the frame table and the event list of the filtered document
C4_FilteredReExport ==
    (pc = "reexported" /\ variant = "compressed") =>
        /\ imported.ok
        /\ doc2.frames = doc.frames
        /\ doc2.events = doc.events

\* C6: a window with start > end is rejected with InvalidWindow and no
\* document is produced
C6_InvalidWindowRejected ==
    (Filtering /\ startValue > endValue) =>
        /\ failure = "InvalidWindow"
        /\ doc = NoDoc

\* C9: startValue/endValue of the document are the minimum and maximum at of
\* its events and lie inside the requested window
C9_DocumentBounds ==
    Filtering =>
        /\ doc.startValue <= doc.endValue
        /\ doc.events # <<>> =>
              /\ doc.startValue = MinAt(doc.events)
              /\ doc.endValue = MaxAt_(doc.events)
              /\ startValue <= doc.startValue
              /\ doc.endValue <= endValue

\* same tree shape, same frame at every node, same frames shared by the
\* same nodes
Isomorphic(ns, imp) ==
    /\ Len(imp.nodes) = Len(ns)
    /\ \A i \in 1..Len(ns) :
          /\ imp.nodes[i].parent = ns[i].parent
          /\ imp.frames[imp.nodes[i].frame + 1] = SerializedFrame(ns[i].frame)
          /\ \A j \in 1..Len(ns) :
                (imp.nodes[i].frame = imp.nodes[j].frame) <=> (ns[i].frame = ns[j].frame)

IntegerWeights(ns) == \A i \in 1..Len(ns) : IsInteger(ns[i].enter) /\ IsInteger(ns[i].leave)

RoundTripped == pc = "reexported" /\ variant = "full"

C7_CompactionSound ==
    (pc = "exported" /\ variant = "compressed") =>
        /\ \A i \in 1..Len(doc.events) :
              0 <= doc.events[i].frame /\ doc.events[i].frame < Len(doc.frames)
        /\ \A k \in 1..Len(doc.frames) : \E i \in 1..Len(doc.events) : doc.events[i].frame = k - 1

\* compaction dropped a frame of the full table
C7_Witness ==
    /\ pc = "exported" /\ variant = "compressed"
    /\ doc.events # <<>>
    /\ Len(doc.frames) < Len(EncodedFrames(nodes))

\* C8: compacting the compacted table and events again changes nothing
C8_CompactionIdempotent ==
    (pc = "exported" /\ variant = "compressed") =>
        compressFramesAndRemap(doc.frames, doc.events)
            = [frames |-> doc.frames, events |-> doc.events]

\* compaction renumbered the frames: the first compacted frame is not the
\* first frame of the full table
C8_Witness ==
    /\ pc = "exported" /\ variant = "compressed"
    /\ Len(doc.frames) >= 2
    /\ doc.frames # EncodedFrames(nodes)

NoEventInWindow ==
    \A i \in 1..Len(events) : events[i].at < startValue \/ events[i].at > endValue

\* C10: when no input event lies in the window the filter returns no event,
\* nothing fails, and the document has startValue = endValue = 0
C10_EmptyResult ==
    (Filtering /\ NoEventInWindow) =>
        /\ filtered = <<>>
        /\ failure = "none"
        /\ doc # NoDoc
        /\ doc.events = <<>>
        /\ doc.startValue = 0
        /\ doc.endValue = 0

\* a profile with events, a window start <= end that misses all of them
C10_Witness ==
    /\ Filtering
    /\ NoEventInWindow
    /\ events # <<>>
    /\ startValue <= endValue
    /\ doc.events = <<>>

----------------------------------------------------------------------------
(* Import of filtered documents *)

ImportedFiltered ==
    /\ pc \in {"imported", "reexported"}
    /\ variant \in {"compressed", "plain"}

\* the profile has events, all of them before the window start <= end
EventsBeforeWindow ==
    /\ events # <<>>
    /\ startValue <= endValue
    /\ \A i \in 1..Len(events) : events[i].at < startValue

----------------------------------------------------------------------------
(* Frame interner, frame table, order and synthetic events of an export *)

OpenEvents(evs) == SelectSeq(evs, LAMBDA ev : ev.type = "O")

\* C14: getIndexForFrame gives the k-th distinct frame the index k-1 and one
\* table record, and the same index without a new record on later calls
C14_InternerDense ==
    (Filtering /\ variant = "plain") =>
        LET opens == OpenEvents(events)
        IN  /\ Len(opens) = Len(nodes)
            /\ Len(doc.frames) = Cardinality(UsedFrames)
            /\ \A i \in 1..Len(nodes) :
                  LET earlier == {nodes[j].frame : j \in 1..(i-1)}
                  IN  /\ nodes[i].frame \notin earlier => opens[i].frame = Cardinality(earlier)
                      /\ \A j \in 1..(i-1) :
                            nodes[j].frame = nodes[i].frame => opens[i].frame = opens[j].frame
                      /\ doc.frames[opens[i].frame + 1] = SerializedFrame(nodes[i].frame)

\* a frame asked about twice
C14_Witness ==
    /\ Filtering /\ variant = "plain"
    /\ Len(nodes) > Cardinality(UsedFrames)

ValidFrameIndices(d) ==
    \A i \in 1..Len(d.events) : 0 <= d.events[i].frame /\ d.events[i].frame < Len(d.frames)

C19_SortedOutput ==
    Filtering => Sorted(filtered) /\ Sorted(doc.events)

\* the selected events followed by the synthetic ones are not sorted
C19_Witness ==
    /\ Filtering
    /\ ~Sorted(SelectedEvents(events, startValue, endValue)
                \o SyntheticLoop(SelectedEvents(events, startValue, endValue),
                                 FrameStateKeys(SelectedEvents(events, startValue, endValue), <<>>),
                                 startValue, endValue))

CountIn(evs, f, ty, lo, hi) ==
    Cardinality({i \in 1..Len(evs) :
                    evs[i].frame = f /\ evs[i].type = ty /\ lo <= evs[i].at /\ evs[i].at <= hi})

\* C20: per frame index seen in the window, one synthetic Close at end when
\* it has an Open and no Close there, one synthetic Open at start when it
\* has a Close and no Open, nothing otherwise
C20_SyntheticEvents ==
    (Filtering /\ startValue <= endValue) =>
        \A f \in FramesIn(events) :
            LET inOpens == CountIn(events, f, "O", startValue, endValue)
                inCloses == CountIn(events, f, "C", startValue, endValue)
                addedOpens == CountType(filtered, f, "O") - inOpens
                addedCloses == CountType(filtered, f, "C") - inCloses
            IN  /\ addedCloses = IF inOpens > 0 /\ inCloses = 0 THEN 1 ELSE 0
                /\ addedOpens = IF inCloses > 0 /\ inOpens = 0 THEN 1 ELSE 0
                /\ addedCloses = 1 => CountIn(filtered, f, "C", endValue, endValue) = 1
                /\ addedOpens = 1 => CountIn(filtered, f, "O", startValue, startValue) = 1

----------------------------------------------------------------------------
(* Frame effect of an export *)

----------------------------------------------------------------------------
(* Import of documents of the test profile *)

Imported == pc \in {"imported", "reexported"} /\ imported.ok

ImportedNames ==
    {imported.frames[imported.nodes[i].frame + 1].name : i \in 1..Len(imported.nodes)}

\* the events of the document with the names of their frames
NamedEvents(d) ==
    [i \in 1..Len(d.events) |->
        <<d.events[i].type, d.frames[d.events[i].frame + 1].name, d.events[i].at>>]

Window200To600 == Imported /\ startValue = T(200) /\ endValue = T(600)

----------------------------------------------------------------------------
(* Replay of an event stream as a call stack                               *)

Reverse(s) == [i \in 1..Len(s) |-> s[Len(s) + 1 - i]]

\* the stack, in push order, with the most recently pushed entry equal to f
\* taken out and every other entry left in place; unchanged when f is absent
WithoutMostRecent(stk, f) ==
    IF \A i \in 1..Len(stk) : stk[i] # f THEN stk
    ELSE LET last == CHOOSE i \in 1..Len(stk) :
                         stk[i] = f /\ \A j \in (i + 1)..Len(stk) : stk[j] # f
         IN  [i \in 1..(Len(stk) - 1) |-> IF i < last THEN stk[i] ELSE stk[i + 1]]

\* the stacks, in push order, after each event of evs
RECURSIVE Replayed(_, _)
Replayed(stk, evs) ==
    IF evs = <<>> THEN <<>>
    ELSE LET after == IF Head(evs).type = "O" THEN Append(stk, Head(evs).frame)
                      ELSE WithoutMostRecent(stk, Head(evs).frame)
         IN  <<after>> \o Replayed(after, Tail(evs))

\* the lines of the text export as the replay gives them: the stack before
\* each event, top first, for the time since the previous event, and the
\* stack after the last event up to e
ReplayedLines(evs, s, e) ==
    LET stacks == Replayed(<<>>, evs)
        n == Len(evs)
        before(k) == IF k = 1 THEN <<>> ELSE stacks[k - 1]
        since(k) == IF n = 0 THEN s ELSE IF k = 1 THEN evs[1].at ELSE evs[k - 1].at
        candidates == [k \in 1..(n + 1) |->
                          [stack |-> Reverse(before(k)),
                           duration |-> (IF k <= n THEN evs[k].at ELSE e) - since(k)]]
        shown(c) == c.duration > 0 /\ c.stack # <<>>
    IN  SelectSeq(candidates, shown)

TextEventsOf(s, e) ==
    LET enc == Encode(nodes)
    IN  compressFramesAndRemap(FramesOf(enc.tab),
            SortByAt(filterEventsWithContext(enc.evs, s, e))).events

ClosesBelowTop(d, k) ==
    LET evs == SortByAt(d.events)
        prev == d.stackHistory[k - 1].stack
    IN  /\ k > 1
        /\ evs[k].type = "C"
        /\ \E i \in 1..(Len(prev) - 1) : prev[i] = evs[k].frame
        /\ Last(prev) # evs[k].frame
        /\ Len(d.stackHistory[k].stack) = Len(prev) - 1

\* event k of the condensed result d is a Close whose frame index is not in
\* the stack
OrphanClose(d, k) ==
    LET evs == SortByAt(d.events)
        prev == IF k = 1 THEN <<>> ELSE d.stackHistory[k - 1].stack
    IN  /\ evs[k].type = "C"
        /\ \A i \in 1..Len(prev) : prev[i] # evs[k].frame
        /\ d.stackHistory[k].stack = prev

----------------------------------------------------------------------------
(* Preview generations in flight together                                  *)

\* what a generation for the window [s, e] produces when it runs alone
AloneFrames == EncodedFrames(nodes)
AloneEvents(s, e) == filterEventsWithContext(EncodedEvents(nodes), s, e)

----------------------------------------------------------------------------
(* The selection pass, with every event carrying where it came from        *)

\* the events with src = their position in the input; src = 0 marks an
\* event the filter made itself
Tagged(evs) ==
    [i \in 1..Len(evs) |->
        [type |-> evs[i].type, frame |-> evs[i].frame, at |-> evs[i].at, src |-> i]]

Untagged(evs) ==
    [i \in 1..Len(evs) |-> [type |-> evs[i].type, frame |-> evs[i].frame, at |-> evs[i].at]]

\* the filter run on the tagged events
TaggedFilter(evs, s, e) ==
    LET sel == SelectedEvents(Tagged(evs), s, e)
        syn == SyntheticLoop(sel, FrameStateKeys(sel, <<>>), s, e)
    IN  SortByAt(sel \o [i \in 1..Len(syn) |->
                            [type |-> syn[i].type, frame |-> syn[i].frame,
                             at |-> syn[i].at, src |-> 0]])

NonSynthetic(out) == SelectSeq(out, LAMBDA ev : ev.src # 0)

\* C21: the events of the filter's output that are not synthetic are
\* exactly the input events with start <= at <= end, each once, with its
\* type, frame and at unchanged, in the order of the input; no input event
\* outside the window is among them.
C21_SelectionPass ==
    Filtering =>
        LET out == TaggedFilter(events, startValue, endValue)
            kept == NonSynthetic(out)
        IN  /\ Untagged(out) = filtered
            /\ {kept[k].src : k \in 1..Len(kept)} =
                   {i \in 1..Len(events) :
                       startValue <= events[i].at /\ events[i].at <= endValue}
            /\ \A k \in 1..(Len(kept) - 1) : kept[k].src < kept[k + 1].src
            /\ \A k \in 1..Len(kept) :
                   /\ kept[k].type = events[kept[k].src].type
                   /\ kept[k].frame = events[kept[k].src].frame
                   /\ kept[k].at = events[kept[k].src].at

\* a window that keeps an Open and a Close of the input, leaves an input
\* event out and gets a synthetic event
C21_Witness ==
    /\ Filtering
    /\ LET out == TaggedFilter(events, startValue, endValue)
           kept == NonSynthetic(out)
       IN  /\ \E k \in 1..Len(kept) : kept[k].type = "O"
           /\ \E k \in 1..Len(kept) : kept[k].type = "C"
           /\ Len(kept) < Len(events)
           /\ Len(out) > Len(kept)

----------------------------------------------------------------------------
(* Open/close state per frame index *)

\* frame index f has an Open and a Close of the input inside the window
OpenAndCloseInWindow(f) ==
    /\ CountIn(events, f, "O", startValue, endValue) > 0
    /\ CountIn(events, f, "C", startValue, endValue) > 0

\* C22: a frame index with at least one Open and at least one Close inside
\* the window gets no synthetic event: the output has for it exactly the
\* input events inside the window, however many instances of the frame are
\* inside the window and even when an instance is cut by a window edge.
C22_PerFrameIndex ==
    Filtering =>
        \A f \in FramesIn(events) :
            OpenAndCloseInWindow(f) =>
                /\ CountType(filtered, f, "O") = CountIn(events, f, "O", startValue, endValue)
                /\ CountType(filtered, f, "C") = CountIn(events, f, "C", startValue, endValue)

\* a frame index with an Open and a Close inside the window and one
\* instance cut by a window edge: more Closes than Opens inside the window
C22_Witness ==
    /\ Filtering
    /\ \E f \in FramesIn(events) :
           /\ OpenAndCloseInWindow(f)
           /\ CountIn(events, f, "C", startValue, endValue) >
                  CountIn(events, f, "O", startValue, endValue)
           /\ CountType(filtered, f, "C") > CountType(filtered, f, "O")

----------------------------------------------------------------------------
(* Order of the compacted frame table *)

Compacted == pc = "exported" /\ variant = "compressed"

\* position in evs of the first event that references frame index f
FirstReference(evs, f) == CHOOSE i \in 1..Len(evs) : evs[i].frame = f /\ \A j \in 1..(i - 1) : evs[j].frame # f

\* C23: the frame table of the compacted export lists the frames the
\* filtered events reference in the order of their first reference, and is
\* not longer than the full table.
C23_FirstReferenceOrder ==
    Compacted =>
        LET refs == FramesIn(filtered)
            before(f) == {g \in refs : FirstReference(filtered, g) < FirstReference(filtered, f)}
        IN  /\ Len(doc.frames) = Cardinality(refs)
            /\ \A f \in refs : doc.frames[Cardinality(before(f)) + 1] = frameTable[f + 1]
            /\ Len(doc.frames) <= Len(frameTable)

\* the frame referenced first is not the first of the full table
C23_Witness ==
    /\ Compacted
    /\ Len(frameTable) = 2
    /\ Len(doc.frames) = 2
    /\ filtered[1].frame = 1
    /\ doc.frames[1] = frameTable[2]
    /\ doc.frames[1] # frameTable[1]

----------------------------------------------------------------------------
(* Encoding of the call tree *)

Encoded == pc = "exported"

\* position of the Open of the k-th node in call order
OpenPosition(evs, k) ==
    CHOOSE i \in 1..Len(evs) :
        /\ evs[i].type = "O"
        /\ Cardinality({j \in 1..i : evs[j].type = "O"}) = k

\* position of the event that closes the bracket opened at position i
ClosePosition(evs, i) ==
    CHOOSE j \in (i + 1)..Len(evs) :
        /\ Cardinality({m \in i..j : evs[m].type = "O"}) =
               Cardinality({m \in i..j : evs[m].type = "C"})
        /\ \A j2 \in (i + 1)..(j - 1) :
               Cardinality({m \in i..j2 : evs[m].type = "O"}) #
                  Cardinality({m \in i..j2 : evs[m].type = "C"})

\* the events of node k: one Open with weight enterAt, one Close with weight
\* leaveAt and the same frame, the events of its children in between
NodeEncoded(k, enterAt, leaveAt) ==
    LET o == OpenPosition(events, k)
        c == ClosePosition(events, o)
    IN  /\ events[o].at = enterAt
        /\ frameTable[events[o].frame + 1] = SerializedFrame(nodes[k].frame)
        /\ events[c].type = "C"
        /\ events[c].frame = events[o].frame
        /\ events[c].at = leaveAt
        /\ \A m \in 1..Len(nodes) :
               nodes[m].parent = k =>
                  /\ o < OpenPosition(events, m)
                  /\ ClosePosition(events, OpenPosition(events, m)) < c

TreeEncoded ==
    /\ Len(events) = 2 * Len(nodes)
    /\ Sorted(events)
    /\ StrictReplay(events, <<>>)

----------------------------------------------------------------------------
(* What the compacted events refer to *)

\* C29: compaction keeps what every event refers to: the compacted document
\* has the filtered events in the same number and order with the same type
\* and at, the frame record of every event in the new table is its record
\* in the full table, and two events have the same new index exactly when
\* they had the same old index.
C29_ReferencesKept ==
    Compacted =>
        /\ Len(doc.events) = Len(filtered)
        /\ \A i \in 1..Len(filtered) :
               /\ doc.events[i].type = filtered[i].type
               /\ doc.events[i].at = filtered[i].at
               /\ doc.frames[doc.events[i].frame + 1] = frameTable[filtered[i].frame + 1]
        /\ \A i, j \in 1..Len(filtered) :
               (doc.events[i].frame = doc.events[j].frame) <=> (filtered[i].frame = filtered[j].frame)

\* events of two frames, and an event whose index was changed
C29_Witness ==
    /\ Compacted
    /\ \E i, j \in 1..Len(filtered) : filtered[i].frame # filtered[j].frame
    /\ \E i \in 1..Len(filtered) : doc.events[i].frame # filtered[i].frame

----------------------------------------------------------------------------
(* Filtering twice *)

IntegerWindow == IsInteger(startValue) /\ IsInteger(endValue)

\* C30: for an integer window, filtering the filter's output again with the
\* same window returns the same event sequence; no further synthetic event
\* is added.
C30_FilterIdempotent ==
    (Filtering /\ IntegerWindow) =>
        /\ filterEventsWithContext(filtered, startValue, endValue) = filtered
        /\ SyntheticLoop(SelectedEvents(filtered, startValue, endValue),
                         FrameStateKeys(SelectedEvents(filtered, startValue, endValue), <<>>),
                         startValue, endValue) = <<>>

\* an integer window whose output has a synthetic event and leaves an
\* input event out
C30_Witness ==
    /\ Filtering
    /\ IntegerWindow
    /\ startValue <= endValue
    /\ Len(filtered) > Len(SelectedEvents(events, startValue, endValue))
    /\ Len(SelectedEvents(events, startValue, endValue)) < Len(events)

----------------------------------------------------------------------------
(* Token cache *)

GotToken == call.op = "getToken" /\ call.result # NoToken

\* C27: getToken(config, clientId) returns a token only when it was stored
\* by setToken for the same url and client id, also for pairs whose hashed
\* cache keys coincide
C27_TokenIsolation ==
    GotToken => call.result = AccessToken(call.url, call.clientId)

\* C28: getToken returns a token only when its expires_at is later than
\* the time of the call plus five minutes; otherwise it returns null and
\* the entry is gone, and getToken keeps returning null for a key without
\* entry, which only setToken can create.
C28_ExpiryBuffer ==
    /\ [](call.op = "getToken" =>
             LET key == getCacheKey(call.url, call.clientId)
             IN  IF call.result # NoToken
                 THEN /\ HasKey(cache, key)
                      /\ Entry(cache, key).access_token = call.result
                      /\ Entry(cache, key).expires_at > call.at + BufferTime
                 ELSE ~HasKey(cache, key))
    /\ [][(call' # call /\ call'.op = "getToken"
             /\ ~HasKey(cache, getCacheKey(call'.url, call'.clientId)))
            => call'.result = NoToken]_vars
    /\ [][(\E en \in cache' : ~HasKey(cache, en.key)) => call'.op = "setToken"]_vars

\* a token stored with ten minutes to live was returned, and five minutes
\* later getToken returned null and deleted the entry
C28_Witness ==
    /\ call.op = "getToken"
    /\ call.result = NoToken
    /\ call.deleted
    /\ call.at > 0
    /\ ~HasKey(cache, getCacheKey(call.url, call.clientId))

----------------------------------------------------------------------------
(* Send to the LLM *)

\* C25: once handleIntervalConfirm has shown the loading overlay, the
\* overlay is eventually hidden again, whatever the outcome of the send
C25_OverlayHidden ==
    send.showLoadingScreen ~> ~send.showLoadingScreen

\* the document generateJsonPreview stores for the interval [s, e]
JsonFor(s, e) ==
    ExportedData(EncodedFrames(nodes), filterEventsWithContext(EncodedEvents(nodes), s, e))

Confirmed == send.pc # "idle" /\ send.jsonData # NoDoc

\* C26: the JSON handed to onConfirm was generated by filtering with the
\* startValue and endValue handed over with it
C26_JsonMatchesInterval ==
    Confirmed => send.jsonData = JsonFor(send.selectedStartValue, send.selectedEndValue)

====
